---- MODULE Spec2Model ----
(***************************************************************************)
(* A model of tilebox/loops-go: the Contact JSON codec (models.go) and the *)
(* request/response pipeline of the client (client.go).                    *)
(*                                                                         *)
(* Two layers of values are kept apart, as the code keeps them apart:      *)
(*   - Go values held in a map[string]any (kinds string, bool, int,        *)
(*     float64, nil, chan, map[string]bool, map[string]any), and           *)
(*   - JSON values on the wire (kinds string, number, bool, null, object). *)
(* json.Marshal and json.Unmarshal convert between the two.                *)
(***************************************************************************)
EXTENDS Integers, Sequences, FiniteSets, TLC

VARIABLES
    contact,    \* codec: the Contact struct the caller holds / the decoder fills
    data,       \* codec: the bytes last produced or received, parsed (a JSON document)
    cerr,       \* codec: the error of the last codec operation ("" is nil)
    phase,      \* codec: which operations have run
    contact0,   \* codec: the Contact as constructed by the caller (history)
    data0,      \* codec: the bytes as received (history)
    opts,       \* client: the options NewClient was called with (history)
    client,     \* client: the Client that NewClient returned
    call,       \* client: the record of the call in progress or just returned
    calls       \* client: the calls running at once on the client, each with its own data

codecVars == <<contact, data, cerr, phase, contact0, data0>>
clientVars == <<opts, client, call, calls>>
vars == <<codecVars, clientVars>>

----------------------------------------------------------------------------
(* Bounds of the model *)

\* at most this many entries in a Properties map / unknown keys in an input object
MaxProps == 1
\* at most this many request interceptors registered by the caller
MaxInterceptors == 2
\* at most this many entries in the list a find-contact response carries
MaxContacts == 1
\* this many calls run at once on one client
MaxCalls == 2

----------------------------------------------------------------------------
(* Pointers and maps of Go: nil is <<>>, a non-nil value x is <<x>> *)

Nil == <<>>
Ptr(x) == <<x>>
IsNil(p) == p = <<>>
Deref(p) == p[1]

\* String returns a pointer to the string value passed in.
String(v) == Ptr(v)

EmptyMap == [x \in {} |-> 0]

----------------------------------------------------------------------------
(* Go values of static type any *)

NoInner == [x \in {} |-> ""]

\* a number is hi * 2^30 + n, so that integers beyond 2^53 can be written
GoVal(k, s, n, b, m) == [k |-> k, s |-> s, n |-> n, hi |-> 0, b |-> b, m |-> m]
GoStr(s) == GoVal("string", s, 0, FALSE, NoInner)
GoBool(b) == GoVal("bool", "", 0, b, NoInner)
GoInt(n) == GoVal("int", "", n, FALSE, NoInner)
GoFloat(n) == GoVal("float64", "", n, FALSE, NoInner)
GoNil == GoVal("nil", "", 0, FALSE, NoInner)
\* a value encoding/json cannot represent (a channel, a func)
GoChan == GoVal("chan", "", 0, FALSE, NoInner)
\* a map[string]bool: m maps each key to "true" or "false"
GoBoolMap(m) == GoVal("map[string]bool", "", 0, FALSE, m)
\* a map[string]any as json.Unmarshal builds it: m maps each key to its inner value
GoAnyMap(m) == GoVal("map[string]any", "", 0, FALSE, m)

(* JSON values *)
JVal(k, s, n, b, m) == [k |-> k, s |-> s, n |-> n, hi |-> 0, b |-> b, m |-> m]
JStr(s) == JVal("string", s, 0, FALSE, NoInner)
JBool(b) == JVal("bool", "", 0, b, NoInner)
JNum(n) == JVal("number", "", n, FALSE, NoInner)
\* the integer hi * 2^30 + lo
JBigNum(hi, lo) == [JNum(lo) EXCEPT !.hi = hi]
JNull == JVal("null", "", 0, FALSE, NoInner)
JObj(m) == JVal("object", "", 0, FALSE, m)

\* inner values of the nested objects of the model: JSON true, false, or a string
InnerBool(b) == IF b THEN "true" ELSE "false"
InnerIsBool(t) == t \in {"true", "false"}

----------------------------------------------------------------------------
(* encoding/json on a map[string]any *)

\* json.Marshal can represent every kind but chan
Marshalable(v) == v.k # "chan"

\* json.Marshal of one value
ToJSON(v) ==
    CASE v.k = "string" -> JStr(v.s)
      [] v.k = "bool" -> JBool(v.b)
      [] v.k = "int" -> JBigNum(v.hi, v.n)
      [] v.k = "float64" -> JBigNum(v.hi, v.n)
      [] v.k = "nil" -> JNull
      [] v.k = "map[string]bool" -> JObj(v.m)
      [] v.k = "map[string]any" -> JObj(v.m)

\* a float64 holds 53 bits of an integer: integers below 2^53 are exact, and
\* one in 2^53 .. 2^54 is rounded to a multiple of 2, a tie going to the
\* multiple of 4
HighUnit == 2^30
ExactHigh == 2^23
RoundToFloat64(hi, lo) ==
    IF hi < ExactHigh \/ lo % 2 = 0 THEN [hi |-> hi, lo |-> lo]
    ELSE IF (lo - 1) % 4 = 0 THEN [hi |-> hi, lo |-> lo - 1]
    ELSE IF lo + 1 = HighUnit THEN [hi |-> hi + 1, lo |-> 0]
    ELSE [hi |-> hi, lo |-> lo + 1]

\* strconv.ParseFloat(number, 64), for a JSON number that is an integer
ParseFloat(j) ==
    [GoFloat(RoundToFloat64(j.hi, j.n).lo) EXCEPT !.hi = RoundToFloat64(j.hi, j.n).hi]

\* json.Unmarshal of one value into an any
FromJSON(j) ==
    CASE j.k = "string" -> GoStr(j.s)
      [] j.k = "bool" -> GoBool(j.b)
      [] j.k = "number" -> ParseFloat(j)
      [] j.k = "null" -> GoNil
      [] j.k = "object" -> GoAnyMap(j.m)

\* a JSON document (the bytes of a body, parsed): an object, an array, the
\* literal null, a JSON string, text that is not JSON, or no bytes at all
Doc(kind, obj, arr) == [kind |-> kind, obj |-> obj, arr |-> arr]
DocObject(obj) == Doc("object", obj, <<>>)
DocArray(arr) == Doc("array", EmptyMap, arr)
DocNull == Doc("null", EmptyMap, <<>>)
DocString == Doc("string", EmptyMap, <<>>)
DocText == Doc("text", EmptyMap, <<>>)
DocEmpty == Doc("empty", EmptyMap, <<>>)
\* no bytes were produced
NoData == Doc("none", EmptyMap, <<>>)

\* json.Marshal(data) for data of type map[string]any
JSONMarshalMap(m) ==
    IF \E key \in DOMAIN m : ~Marshalable(m[key])
    THEN [err |-> "json: unsupported type", out |-> NoData]
    ELSE [err |-> "", out |-> DocObject([key \in DOMAIN m |-> ToJSON(m[key])])]

\* json.Unmarshal(data, &values) for values of type map[string]any
JSONUnmarshalMap(doc) ==
    CASE doc.kind = "object" ->
            [err |-> "", values |-> [key \in DOMAIN doc.obj |-> FromJSON(doc.obj[key])]]
      [] doc.kind = "null" -> [err |-> "", values |-> EmptyMap]
      [] OTHER -> [err |-> "json: cannot unmarshal", values |-> EmptyMap]

\* maps.Copy(dst, src): every entry of src is written into dst
MapsCopy(dst, src) ==
    [key \in DOMAIN dst \cup DOMAIN src |->
        IF key \in DOMAIN src THEN src[key] ELSE dst[key]]

\* data[key] = v
MapSet(m, key, v) == [x \in DOMAIN m \cup {key} |-> IF x = key THEN v ELSE m[x]]

\* delete(values, key)
MapDelete(m, key) == [x \in DOMAIN m \ {key} |-> m[x]]

----------------------------------------------------------------------------
(* Contact *)

RequiredKeys == {"id", "email", "subscribed"}
OptionalStringKeys == {"firstName", "lastName", "source", "userGroup", "userId"}
OptionalKeys == OptionalStringKeys \cup {"mailingLists", "optInStatus"}
KnownKeys == RequiredKeys \cup OptionalKeys

\* the struct field that holds each optional key
FieldOf(key) ==
    CASE key = "firstName" -> "FirstName"
      [] key = "lastName" -> "LastName"
      [] key = "source" -> "Source"
      [] key = "userGroup" -> "UserGroup"
      [] key = "userId" -> "UserID"
      [] key = "mailingLists" -> "MailingLists"
      [] key = "optInStatus" -> "OptInStatus"

\* the zero value Contact{}
ZeroContact ==
    [ID |-> "", Email |-> "", FirstName |-> Nil, LastName |-> Nil, Source |-> Nil,
     Subscribed |-> FALSE, UserGroup |-> Nil, UserID |-> Nil, MailingLists |-> Nil,
     OptInStatus |-> Nil, Properties |-> Nil]

\* if c.<Field> != nil { data[key] = *c.<Field> }
PutOptional(m, key, p) == IF IsNil(p) THEN m ELSE MapSet(m, key, GoStr(Deref(p)))

\* the known attributes as MarshalJSON writes them into its map
MarshalKnown(c) ==
    LET d0 == [key \in RequiredKeys |->
                  CASE key = "id" -> GoStr(c.ID)
                    [] key = "email" -> GoStr(c.Email)
                    [] key = "subscribed" -> GoBool(c.Subscribed)]
        d1 == PutOptional(d0, "firstName", c.FirstName)
        d2 == PutOptional(d1, "lastName", c.LastName)
        d3 == PutOptional(d2, "source", c.Source)
        d4 == PutOptional(d3, "userGroup", c.UserGroup)
        d5 == PutOptional(d4, "userId", c.UserID)
        d6 == IF IsNil(c.MailingLists) THEN d5
              ELSE MapSet(d5, "mailingLists",
                          GoBoolMap([l \in DOMAIN Deref(c.MailingLists) |->
                                        InnerBool(Deref(c.MailingLists)[l])]))
    IN  PutOptional(d6, "optInStatus", c.OptInStatus)

\* a variant that nests the custom properties under a key of their own
MarshalDataNested(c) ==
    IF IsNil(c.Properties) THEN MarshalKnown(c)
    ELSE MapSet(MarshalKnown(c), "customProperties", GoAnyMap(NoInner))

\* the map MarshalJSON serialises: maps.Copy(data, c.Properties) inlines the
\* custom properties (a nil map copies nothing)
MarshalData(c) ==
    IF IsNil(c.Properties) THEN MarshalKnown(c)
    ELSE MapsCopy(MarshalKnown(c), Deref(c.Properties))

\* func (c *Contact) MarshalJSON() ([]byte, error)
MarshalJSON(c) == JSONMarshalMap(MarshalData(c))

----------------------------------------------------------------------------
(* Contact.UnmarshalJSON: a run of steps over (c, values), each of which may
   return early with an error; panicked marks a run-time panic *)

DecodeState(c, values, err, panicked) ==
    [c |-> c, values |-> values, err |-> err, panicked |-> panicked]

\* v, ok := values[key].(string)
IsGoString(values, key) == key \in DOMAIN values /\ values[key].k = "string"
\* v, ok := values[key].(bool)
IsGoBool(values, key) == key \in DOMAIN values /\ values[key].k = "bool"
\* v, ok := values[key].(map[string]any)
IsGoAnyMap(values, key) == key \in DOMAIN values /\ values[key].k = "map[string]any"

ErrMissingID == "missing or invalid 'id' field"
ErrMissingEmail == "missing or invalid 'email' field"
ErrMissingSubscribed == "missing or invalid 'subscribed' field"
PanicTypeAssertion == "panic: interface conversion: interface {} is not bool"

\* if id, ok := values["id"].(string); ok { c.ID = id; delete(values, "id") }
\* else { return errors.New("missing or invalid 'id' field") }
DecodeID(st) ==
    IF st.err # "" THEN st
    ELSE IF IsGoString(st.values, "id")
    THEN [st EXCEPT !.c.ID = st.values["id"].s, !.values = MapDelete(st.values, "id")]
    ELSE [st EXCEPT !.err = ErrMissingID]

\* a variant that leaves Email at its zero value when the key is missing or ill-typed
DecodeEmailDefaulted(st) ==
    IF st.err # "" THEN st
    ELSE IF IsGoString(st.values, "email")
    THEN [st EXCEPT !.c.Email = st.values["email"].s,
                    !.values = MapDelete(st.values, "email")]
    ELSE st

DecodeEmail(st) ==
    IF st.err # "" THEN st
    ELSE IF IsGoString(st.values, "email")
    THEN [st EXCEPT !.c.Email = st.values["email"].s,
                    !.values = MapDelete(st.values, "email")]
    ELSE [st EXCEPT !.err = ErrMissingEmail]

DecodeSubscribed(st) ==
    IF st.err # "" THEN st
    ELSE IF IsGoBool(st.values, "subscribed")
    THEN [st EXCEPT !.c.Subscribed = st.values["subscribed"].b,
                    !.values = MapDelete(st.values, "subscribed")]
    ELSE [st EXCEPT !.err = ErrMissingSubscribed]

\* a variant that sets the attribute and leaves its key in values
DecodeOptionalStringKept(st, key) ==
    IF st.err # "" THEN st
    ELSE IF IsGoString(st.values, key)
    THEN [st EXCEPT !.c[FieldOf(key)] = Ptr(st.values[key].s)]
    ELSE st

\* if v, ok := values[key].(string); ok { c.<Field> = &v; delete(values, key) }
DecodeOptionalString(st, key) ==
    IF st.err # "" THEN st
    ELSE IF IsGoString(st.values, key)
    THEN [st EXCEPT !.c[FieldOf(key)] = Ptr(st.values[key].s),
                    !.values = MapDelete(st.values, key)]
    ELSE st

\* mailingLists, ok := values["mailingLists"].(map[string]any)
\* if ok { c.MailingLists = make(map[string]bool)
\*         for k, v := range mailingLists { c.MailingLists[k] = v.(bool) }
\*         delete(values, "mailingLists") }
\* v.(bool) panics on an inner value that is not a bool
DecodeMailingLists(st) ==
    IF st.err # "" THEN st
    ELSE IF IsGoAnyMap(st.values, "mailingLists")
    THEN LET ml == st.values["mailingLists"].m
         IN  IF \E l \in DOMAIN ml : ~InnerIsBool(ml[l])
             THEN [st EXCEPT !.err = PanicTypeAssertion, !.panicked = TRUE]
             ELSE [st EXCEPT !.c.MailingLists = Ptr([l \in DOMAIN ml |-> ml[l] = "true"]),
                             !.values = MapDelete(st.values, "mailingLists")]
    ELSE st

\* a variant that drops the keys no known attribute consumed
DecodePropertiesDropped(st) ==
    IF st.err # "" THEN st
    ELSE [st EXCEPT !.c.Properties = Ptr(EmptyMap)]

\* c.Properties = make(map[string]any); maps.Copy(c.Properties, values)
DecodeProperties(st) ==
    IF st.err # "" THEN st
    ELSE [st EXCEPT !.c.Properties = Ptr(MapsCopy(EmptyMap, st.values))]

\* func (c *Contact) UnmarshalJSON(data []byte) error, on receiver c
UnmarshalJSON(c, doc) ==
    LET parsed == JSONUnmarshalMap(doc)
        s0 == DecodeState(c, parsed.values, parsed.err, FALSE)
        s1 == DecodeID(s0)
        s2 == DecodeEmail(s1)
        s3 == DecodeSubscribed(s2)
        s4 == DecodeOptionalString(s3, "firstName")
        s5 == DecodeOptionalString(s4, "lastName")
        s6 == DecodeOptionalString(s5, "source")
        s7 == DecodeOptionalString(s6, "userGroup")
        s8 == DecodeOptionalString(s7, "userId")
        s9 == DecodeMailingLists(s8)
        s10 == DecodeOptionalString(s9, "optInStatus")
    IN  DecodeProperties(s10)

----------------------------------------------------------------------------
(* The values the model draws its inputs from *)

\* the required attributes as a caller sets them, the zero values included
RequiredSettings == [ID : {"", "123"}, Email : {"", "test@example.com"}, Subscribed : BOOLEAN]
ListIDs == {"list_123"}
CustomKeys == {"favoriteColor", "plan"}

\* every function from a subset of keys of at most n elements to vals
BoundedMaps(keys, vals, n) ==
    UNION {[S -> vals] : S \in {T \in SUBSET keys : Cardinality(T) <= n}}

\* the values a caller may put into Properties
PropValues == {GoStr("blue"), GoInt(7), GoBool(TRUE), GoNil, GoChan}
\* callers may use any key, the names of the known attributes included
PropKeys == CustomKeys \cup KnownKeys
PropertyMaps == {Nil} \cup {Ptr(m) : m \in BoundedMaps(PropKeys, PropValues, MaxProps)}

MailingListMaps == {EmptyMap} \cup [ListIDs -> BOOLEAN]

\* the value a caller gives an optional attribute it sets
OptionalValue(key, ml) ==
    CASE key = "mailingLists" -> Ptr(ml)
      [] key = "optInStatus" -> Ptr("pending")
      [] key = "firstName" -> String("John")
      [] key = "lastName" -> String("Doe")
      [] key = "source" -> String("")
      [] key = "userGroup" -> String("beta")
      [] key = "userId" -> String("user_123")

\* a Contact whose optional attributes in present are set
MakeContact(req, present, ml, props) ==
    [ID |-> req.ID, Email |-> req.Email, Subscribed |-> req.Subscribed,
     FirstName |-> IF "firstName" \in present THEN OptionalValue("firstName", ml) ELSE Nil,
     LastName |-> IF "lastName" \in present THEN OptionalValue("lastName", ml) ELSE Nil,
     Source |-> IF "source" \in present THEN OptionalValue("source", ml) ELSE Nil,
     UserGroup |-> IF "userGroup" \in present THEN OptionalValue("userGroup", ml) ELSE Nil,
     UserID |-> IF "userId" \in present THEN OptionalValue("userId", ml) ELSE Nil,
     MailingLists |-> IF "mailingLists" \in present THEN OptionalValue("mailingLists", ml)
                      ELSE Nil,
     OptInStatus |-> IF "optInStatus" \in present THEN OptionalValue("optInStatus", ml)
                     ELSE Nil,
     Properties |-> props]

\* the optional attributes a contact sets: none, any one of them, or all of them
OptionalSets == {{}} \cup {{key} : key \in OptionalKeys} \cup {OptionalKeys}

\* the JSON values a server may send under a required key (and it may omit the key)
RequiredWireValues == {JStr("123"), JBool(TRUE), JNull}
\* ... under an optional known key
OptionalWireValues ==
    {JStr("John"), JNum(7), JNull,
     JObj([l \in ListIDs |-> "true"]), JObj([l \in ListIDs |-> "string"])}
\* ... under any other key
\* (the last one is the integer 2^53 + 1 = 9007199254740993)
UnknownWireValues == {JStr("blue"), JNum(7), JBool(TRUE), JNull, JBigNum(ExactHigh, 1)}

\* every optional known key with a value of its own type
AllOptionalsValid ==
    [key \in OptionalKeys |->
        IF key = "mailingLists" THEN JObj([l \in ListIDs |-> "false"]) ELSE JStr("John")]

\* the optional known keys of an input object: none, any one of them with any
\* value, or all of them with well-typed values
OptionalWireMaps ==
    {EmptyMap, AllOptionalsValid}
        \cup UNION {[{key} -> OptionalWireValues] : key \in OptionalKeys}

RequiredWireMaps == UNION {[S -> RequiredWireValues] : S \in SUBSET RequiredKeys}
UnknownWireMaps == BoundedMaps(CustomKeys, UnknownWireValues, MaxProps)

\* the union of maps with disjoint domains
MapUnion(f, g) ==
    [key \in DOMAIN f \cup DOMAIN g |-> IF key \in DOMAIN f THEN f[key] ELSE g[key]]

\* a JSON object a server may send for a contact
WireObject(req, opt, unk) == DocObject(MapUnion(req, MapUnion(opt, unk)))

----------------------------------------------------------------------------
(* URLs. The text of a URL is a host and the text of its path; the text of a
   path is the sequence of its pieces, the separator "/" being a piece of its
   own: "/api/v1/" is <<"/", "api", "/", "v1", "/">>. A parsed path is the
   sequence of the elements between the separators, as strings.Split(path, "/")
   gives them: "/api/v1/" is <<"", "api", "v1", "">>, "" is <<"">>. *)

URLText(host, path) == [host |-> host, path |-> path]

\* const defaultURL = "https://app.loops.so/api/v1/"
defaultURL == URLText("app.loops.so", <<"/", "api", "/", "v1", "/">>)

\* the text of the endpoint paths the operations pass to newRequestWithBody
PathText(path) ==
    CASE path = "/contacts/find" -> <<"/", "contacts", "/", "find">>
      [] path = "/contacts/delete" -> <<"/", "contacts", "/", "delete">>
      [] path = "/contacts/create" -> <<"/", "contacts", "/", "create">>
      [] path = "/events/send" -> <<"/", "events", "/", "send">>
      [] path = "/transactional" -> <<"/", "transactional">>
      [] path = "/api-key" -> <<"/", "api-key">>

\* strings.Split(path, "/"), elem being the element under construction
RECURSIVE SplitFrom(_, _)
SplitFrom(text, elem) ==
    IF text = <<>> THEN <<elem>>
    ELSE IF Head(text) = "/" THEN <<elem>> \o SplitFrom(Tail(text), "")
    ELSE SplitFrom(Tail(text), Head(text))

SplitPath(text) == SplitFrom(text, "")

\* url.Parse of the text of a URL whose path is absolute or empty
ParseURL(text) == [host |-> text.host, path |-> SplitPath(text.path)]
NoURL == [host |-> "", path |-> <<>>]

\* the loop of resolvePath: "." is dropped, ".." removes the element before it
RECURSIVE RemoveDotSegments(_, _)
RemoveDotSegments(elems, dst) ==
    IF elems = <<>> THEN dst
    ELSE IF Head(elems) = "." THEN RemoveDotSegments(Tail(elems), dst)
    ELSE IF Head(elems) = ".."
    THEN RemoveDotSegments(Tail(elems),
                           IF Len(dst) > 1 THEN SubSeq(dst, 1, Len(dst) - 1) ELSE <<"">>)
    ELSE RemoveDotSegments(Tail(elems), Append(dst, Head(elems)))

\* the path always comes back with its leading separator
Rooted(elems) == IF elems # <<>> /\ Head(elems) = "" THEN elems ELSE <<"">> \o elems

\* resolvePath(base, ref) of net/url (RFC 3986, 5.2): a reference that begins
\* with "/" replaces the path of the base; any other reference replaces what
\* follows the last "/" of the base
ResolvePath(base, ref) ==
    IF Head(ref) = "" /\ Len(ref) > 1 THEN Rooted(RemoveDotSegments(ref, <<>>))
    ELSE Rooted(RemoveDotSegments(SubSeq(base, 1, Len(base) - 1) \o ref, <<>>))

\* func (u *URL) Parse(ref string) (*URL, error), for a reference that is a path
URLParse(u, ref) == [host |-> u.host, path |-> ResolvePath(u.path, SplitPath(ref))]

\* if path[0] == '/' { path = "." + path }
RelativePath(text) == IF Head(text) = "/" THEN <<".">> \o text ELSE text

----------------------------------------------------------------------------
(* The client: construction *)

\* header values are tuples of strings, so that "Bearer <key>" can be built
BearerToken(apiKey) == <<"Bearer", apiKey>>
ApplicationJSON == <<"application/json">>

\* a RequestInterceptor: it sets one header of the request, or returns an error
Interceptor(name, header, value, fails) ==
    [name |-> name, header |-> header, value |-> value, fails |-> fails]

\* func(ctx, req) error { req.Header.Set("Authorization", "Bearer "+apiKey); return nil }
AuthInterceptor(apiKey) == Interceptor("auth", "Authorization", BearerToken(apiKey), FALSE)
\* func(ctx, req) error { req.Header.Set("Content-Type", "application/json"); return nil }
ContentTypeInterceptor == Interceptor("content-type", "Content-Type", ApplicationJSON, FALSE)

\* clientConfig as NewClient initialises it, before the options are applied
DefaultConfig == [apiURL |-> defaultURL, apiKey |-> "", requestInterceptors |-> <<>>]
\* WithURL(apiURL)
WithURL(config, apiURL) == [config EXCEPT !.apiURL = apiURL]
\* WithAPIKey(apiKey)
WithAPIKey(config, apiKey) == [config EXCEPT !.apiKey = apiKey]
\* WithRequestInterceptors(requestInterceptors...)
WithRequestInterceptors(config, interceptors) ==
    [config EXCEPT !.requestInterceptors = config.requestInterceptors \o interceptors]

\* a variant that installs the authentication interceptor ahead of the caller's
NewClientAuthFirst(config) ==
    [apiURL |-> ParseURL(config.apiURL),
     requestInterceptors |->
        (IF config.apiKey # "" THEN <<AuthInterceptor(config.apiKey)>> ELSE <<>>)
            \o config.requestInterceptors \o <<ContentTypeInterceptor>>]

\* a variant that installs the content-type interceptor ahead of the caller's
NewClientContentTypeFirst(config) ==
    [apiURL |-> ParseURL(config.apiURL),
     requestInterceptors |->
        <<ContentTypeInterceptor>> \o config.requestInterceptors
            \o (IF config.apiKey # "" THEN <<AuthInterceptor(config.apiKey)>> ELSE <<>>)]

\* func NewClient(opts ...ClientOption) (*Client, error), the options applied
NewClient(config) ==
    LET i0 == config.requestInterceptors
        i1 == IF config.apiKey # "" THEN Append(i0, AuthInterceptor(config.apiKey)) ELSE i0
    IN  [apiURL |-> ParseURL(config.apiURL),
         requestInterceptors |-> Append(i1, ContentTypeInterceptor)]

----------------------------------------------------------------------------
(* The client: errors *)

\* an error value: which return statement built it (kind), its literal text, and,
\* for errors.New(string(body)), the body whose text is the message
\* cause is the error it wraps with %w ("" when it wraps none)
Error(kind, text, raw) == [kind |-> kind, text |-> text, raw |-> raw, cause |-> ""]
\* fmt.Errorf(text + ": %w", cause)
ErrorWrap(kind, text, cause) == [Error(kind, text, NoData) EXCEPT !.cause = cause]
NoError == Error("nil", "", NoData)
\* errors.New(text)
ErrorNew(kind, text) == Error(kind, text, NoData)
\* errors.New(string(body))
ErrorRaw(body) == Error("remote", "", body)
IsError(e) == e.kind # "nil"

ErrContactNotFound == ErrorNew("not-found", "contact not found")
ErrIdentifierNeither ==
    ErrorNew("validation", "contact identifier must contain either an email or a userId")
ErrIdentifierBoth ==
    ErrorNew("validation",
             "contact identifier must contain either an email or a userId, but not both")
ErrEventNeither == ErrorNew("validation", "event must contain either an email or a userId")
ErrEventBoth ==
    ErrorNew("validation", "event must contain either an email or a userId, but not both")
ErrMarshalMessage == ErrorNew("marshal", "failed to marshal message")
ErrInterceptor == ErrorNew("interceptor", "interceptor failed")
ErrSendRequest(cause) == ErrorWrap("transport", "failed to send request", cause)
ErrUnmarshalResponse == ErrorNew("unmarshal-response", "failed to unmarshal response body")
ErrUnmarshalErrorMessage ==
    ErrorNew("unmarshal-error", "failed to unmarshal error message")
ErrPanic == ErrorNew("panic", "runtime error: invalid memory address or nil pointer dereference")

----------------------------------------------------------------------------
(* The client: building a request *)

NoRequest == [method |-> "", path |-> "", url |-> NoURL, query |-> EmptyMap,
              body |-> NoData, header |-> EmptyMap]

\* req.Header.Set(header, value), or the interceptor's error
RunInterceptor(i, req) ==
    IF i.fails THEN [req |-> req, err |-> ErrInterceptor]
    ELSE [req |-> [req EXCEPT !.header = MapSet(req.header, i.header, i.value)],
          err |-> NoError]

\* a variant that invokes the rest of the chain after an interceptor failed
RECURSIVE RunInterceptorsToTheEnd(_, _, _)
RunInterceptorsToTheEnd(interceptors, req, log) ==
    IF interceptors = <<>> THEN [req |-> req, err |-> NoError, log |-> log]
    ELSE IF IsError(RunInterceptor(Head(interceptors), req).err)
    THEN [req |-> NoRequest, err |-> RunInterceptor(Head(interceptors), req).err,
          log |-> RunInterceptorsToTheEnd(Tail(interceptors), req,
                                          Append(log, Head(interceptors).name)).log]
    ELSE RunInterceptorsToTheEnd(Tail(interceptors),
                                 RunInterceptor(Head(interceptors), req).req,
                                 Append(log, Head(interceptors).name))

\* for _, interceptor := range c.requestInterceptors {
\*     if err := interceptor(ctx, req); err != nil { return nil, err } }
\* log lists the interceptors invoked, in order
RECURSIVE RunInterceptors(_, _, _)
RunInterceptors(interceptors, req, log) ==
    IF interceptors = <<>> THEN [req |-> req, err |-> NoError, log |-> log]
    ELSE LET r == RunInterceptor(Head(interceptors), req)
             log1 == Append(log, Head(interceptors).name)
         IN  IF IsError(r.err) THEN [req |-> NoRequest, err |-> r.err, log |-> log1]
             ELSE RunInterceptors(Tail(interceptors), r.req, log1)

\* the message of newRequestWithBody: nil, or the outcome of json.Marshal(message)
NoMessage == [present |-> FALSE, err |-> "", out |-> NoData]
Message(marshalled) == [present |-> TRUE, err |-> marshalled.err, out |-> marshalled.out]

\* a variant that serialises the message only after the interceptors have run
newRequestWithBodyLazy(c, method, path, message) ==
    LET r == RunInterceptors(c.requestInterceptors,
                             [method |-> method, path |-> path,
                              url |-> URLParse(c.apiURL, RelativePath(PathText(path))),
                              query |-> EmptyMap, body |-> message.out, header |-> EmptyMap],
                             <<>>)
    IN  IF IsError(r.err) THEN r
        ELSE IF message.present /\ message.err # ""
        THEN [req |-> NoRequest, err |-> ErrMarshalMessage, log |-> r.log]
        ELSE r

\* func newRequestWithBody[T any](c, ctx, method, path, message *T) (*http.Request, error)
newRequestWithBody(c, method, path, message) ==
    IF message.present /\ message.err # ""
    THEN [req |-> NoRequest, err |-> ErrMarshalMessage, log |-> <<>>]
    ELSE RunInterceptors(c.requestInterceptors,
                         [method |-> method, path |-> path,
                          url |-> URLParse(c.apiURL, RelativePath(PathText(path))),
                          query |-> EmptyMap, body |-> message.out, header |-> EmptyMap],
                         <<>>)

\* func newGetRequestWithQueryParams(c, ctx, path, queryParams) (*http.Request, error)
\* req.URL.RawQuery = queryParams.Encode(), unless building the request failed
WithQuery(r, queryParams) ==
    IF IsError(r.err) THEN r ELSE [r EXCEPT !.req.query = queryParams]

newGetRequestWithQueryParams(c, path, queryParams) ==
    WithQuery(newRequestWithBody(c, "GET", path, NoMessage), queryParams)

----------------------------------------------------------------------------
(* The client: decoding a response body *)

\* the fields of the response structs and their Go types
StructFields(T) ==
    CASE T = "errorResponse" -> [f \in {"error"} |-> "string"]
      [] T = "MessageResponse" ->
            [f \in {"success", "message"} |-> IF f = "success" THEN "bool" ELSE "string"]
      [] T = "SuccessResponse" -> [f \in {"success"} |-> "bool"]
      [] T = "IDResponse" ->
            [f \in {"success", "id"} |-> IF f = "success" THEN "bool" ELSE "string"]
      [] T = "APIKeyInfo" ->
            [f \in {"success", "teamName"} |-> IF f = "success" THEN "bool" ELSE "string"]
      [] T = "TransactionalEmailList" ->
            [f \in {"data", "pagination"} |-> IF f = "data" THEN "array" ELSE "object"]

ZeroOf(type) ==
    CASE type = "bool" -> GoBool(FALSE)
      [] type = "string" -> GoStr("")
      [] type = "array" -> GoNil
      [] type = "object" -> GoAnyMap(NoInner)

\* a decoded value: a pointer to a struct (isNil when the pointer is nil), or a
\* slice of contact pointers
Payload(kind, isNil, fields, list) ==
    [kind |-> kind, isNil |-> isNil, fields |-> fields, list |-> list]
NoPayload == Payload("none", TRUE, EmptyMap, <<>>)

\* json.Unmarshal(body, &v) for v a pointer to a struct of type T that starts
\* non-nil and zero. A JSON null sets the pointer to nil and is no error; a field
\* of the wrong JSON type is an UnmarshalTypeError (null leaves a field alone).
UnmarshalStruct(T, body) ==
    LET types == StructFields(T)
        o == body.obj
        matches(f) == f \in DOMAIN o /\ o[f].k = types[f]
        mismatches(f) == f \in DOMAIN o /\ o[f].k \notin {types[f], "null"}
    IN  CASE body.kind = "object" ->
                [err |-> \E f \in DOMAIN types : mismatches(f),
                 val |-> Payload("struct", FALSE,
                                 [f \in DOMAIN types |->
                                     IF matches(f) THEN FromJSON(o[f]) ELSE ZeroOf(types[f])],
                                 <<>>)]
          [] body.kind = "null" ->
                [err |-> FALSE, val |-> Payload("struct", TRUE, EmptyMap, <<>>)]
          [] OTHER -> [err |-> TRUE, val |-> NoPayload]

\* one element of a []*Contact: null gives a nil pointer, anything else a new
\* Contact filled by Contact.UnmarshalJSON
ContactElement(r) == [err |-> r.err # "", panicked |-> r.panicked, ptr |-> Ptr(r.c)]

UnmarshalContactElement(doc) ==
    IF doc.kind = "null" THEN [err |-> FALSE, panicked |-> FALSE, ptr |-> Nil]
    ELSE ContactElement(UnmarshalJSON(ZeroContact, doc))

\* json.Unmarshal(body, &v) for v of type []*Contact: the elements are decoded
\* in order, and the first one whose UnmarshalJSON fails (or panics) ends the decode
ContactSlice(elems) ==
    LET bad == {i \in DOMAIN elems : elems[i].err}
        first == CHOOSE i \in bad : \A j \in bad : i <= j
    IN  [err |-> bad # {},
         panicked |-> bad # {} /\ elems[first].panicked,
         val |-> Payload("contacts", FALSE, EmptyMap, [i \in DOMAIN elems |-> elems[i].ptr])]

UnmarshalContacts(body) ==
    CASE body.kind = "array" ->
            ContactSlice([i \in DOMAIN body.arr |-> UnmarshalContactElement(body.arr[i])])
      [] body.kind = "null" ->
            [err |-> FALSE, panicked |-> FALSE,
             val |-> Payload("contacts", TRUE, EmptyMap, <<>>)]
      [] OTHER -> [err |-> TRUE, panicked |-> FALSE, val |-> NoPayload]

\* var response T; err = json.Unmarshal(body, &response)
StructResponse(r) == [err |-> r.err, panicked |-> FALSE, val |-> r.val]

UnmarshalResponse(T, body) ==
    IF T = "Contacts" THEN UnmarshalContacts(body)
    ELSE StructResponse(UnmarshalStruct(T, body))

----------------------------------------------------------------------------
(* The client: sending a request *)

\* if resp.StatusCode < 300 { // success response
SuccessLimit == 300

\* what c.httpClient.Do(req) and io.ReadAll(resp.Body) come back with
\* Do returned the error cause; status and body are those of the response it
\* returned with the error, if any (status 0: no response)
TransportFailure(cause, status, body) ==
    [fail |-> "do", cause |-> cause, status |-> status, body |-> body]
TransportError == TransportFailure("dial tcp: connection refused", 0, NoData)
ReadError(status) == [fail |-> "read", cause |-> "unexpected EOF", status |-> status,
                      body |-> NoData]
Response(status, body) == [fail |-> "", cause |-> "", status |-> status, body |-> body]

SendResult(val, err) == [val |-> val, err |-> err]

\* the status >= 300 branch of sendRequest: the error shapes in turn
\* (errorMsg.Error on a pointer that a null body made nil panics)
\* a variant that tries the {success, message} shape before the {error} shape
ErrorFromShapesMessageFirst(body, errorMsg, msg) ==
    IF ~msg.err /\ msg.val.isNil THEN ErrPanic
    ELSE IF ~msg.err /\ msg.val.fields["message"].s # ""
    THEN ErrorNew("remote", msg.val.fields["message"].s)
    ELSE IF errorMsg.err THEN ErrUnmarshalErrorMessage
    ELSE IF errorMsg.val.isNil THEN ErrPanic
    ELSE IF errorMsg.val.fields["error"].s = "" THEN ErrorRaw(body)
    ELSE ErrorNew("remote", errorMsg.val.fields["error"].s)

\* var errorMsg errorResponse; err = json.Unmarshal(body, &errorMsg)
\* if err == nil && errorMsg.Error != "" { return errors.New(errorMsg.Error) }
\* var msg MessageResponse; err = json.Unmarshal(body, &msg)
\* if err != nil { return fmt.Errorf("failed to unmarshal error message: %w", err) }
\* if msg.Message == "" { return errors.New(string(body)) }
\* return errors.New(msg.Message)
ErrorFromShapes(body, errorMsg, msg) ==
    IF ~errorMsg.err /\ errorMsg.val.isNil THEN ErrPanic
    ELSE IF ~errorMsg.err /\ errorMsg.val.fields["error"].s # ""
    THEN ErrorNew("remote", errorMsg.val.fields["error"].s)
    ELSE IF msg.err THEN ErrUnmarshalErrorMessage
    ELSE IF msg.val.isNil THEN ErrPanic
    ELSE IF msg.val.fields["message"].s = "" THEN ErrorRaw(body)
    ELSE ErrorNew("remote", msg.val.fields["message"].s)

ErrorFromBody(body) ==
    ErrorFromShapes(body, UnmarshalStruct("errorResponse", body),
                    UnmarshalStruct("MessageResponse", body))

\* func sendRequest[T any](c *Client, req *http.Request) (T, error)
\* the status < 300 branch of sendRequest, given what json.Unmarshal came back with
SuccessResult(r) ==
    IF r.panicked THEN SendResult(NoPayload, ErrPanic)
    ELSE IF r.err THEN SendResult(NoPayload, ErrUnmarshalResponse)
    ELSE SendResult(r.val, NoError)

\* a variant that goes on to the response when Do returned one with its error
sendRequestReadingOnError(T, outcome) ==
    IF outcome.fail = "do" /\ outcome.status = 0
    THEN SendResult(NoPayload, ErrSendRequest(outcome.cause))
    ELSE IF outcome.fail = "read"
    THEN SendResult(NoPayload, ErrorWrap("read", "failed to read response body", outcome.cause))
    ELSE IF outcome.status < SuccessLimit
    THEN SuccessResult(UnmarshalResponse(T, outcome.body))
    ELSE SendResult(NoPayload, ErrorFromBody(outcome.body))

\* a variant that also takes status 300 for a success
sendRequestThrough300(T, outcome) ==
    IF outcome.fail = "do" THEN SendResult(NoPayload, ErrSendRequest(outcome.cause))
    ELSE IF outcome.fail = "read"
    THEN SendResult(NoPayload, ErrorWrap("read", "failed to read response body", outcome.cause))
    ELSE IF outcome.status <= SuccessLimit
    THEN SuccessResult(UnmarshalResponse(T, outcome.body))
    ELSE SendResult(NoPayload, ErrorFromBody(outcome.body))

sendRequest(T, outcome) ==
    IF outcome.fail = "do" THEN SendResult(NoPayload, ErrSendRequest(outcome.cause))
    ELSE IF outcome.fail = "read"
    THEN SendResult(NoPayload, ErrorWrap("read", "failed to read response body", outcome.cause))
    ELSE IF outcome.status < SuccessLimit
    THEN SuccessResult(UnmarshalResponse(T, outcome.body))
    ELSE SendResult(NoPayload, ErrorFromBody(outcome.body))

----------------------------------------------------------------------------
(* The client: the operations. Each yields the record of one call: what was
   passed, the request built (if any), the interceptors invoked, how many times
   the transport was invoked, what it answered, and what the call returned. *)

NoIdentity == [Email |-> Nil, UserID |-> Nil]

\* ListTransactionalEmailsOptions{}
NoListOptions == [PerPage |-> 0, Cursor |-> ""]

CallRecord(op, id, built, dispatches, outcome, val, err) ==
    [op |-> op, id |-> id, list |-> NoListOptions, built |-> ~IsError(built.err),
     req |-> built.req, log |-> built.log, dispatches |-> dispatches,
     outcome |-> outcome, val |-> val, err |-> err]

\* the record of a call that was passed list options
WithListOptions(record, options) == [record EXCEPT !.list = options]

NothingBuilt == [req |-> NoRequest, err |-> ErrorNew("not-built", ""), log |-> <<>>]
NoOutcome == [fail |-> "none", cause |-> "", status |-> 0, body |-> NoData]
IdleCall == CallRecord("idle", NoIdentity, NothingBuilt, 0, NoOutcome, NoPayload, NoError)

\* a call that returned before a request was built
Rejected(op, id, err) == CallRecord(op, id, NothingBuilt, 0, NoOutcome, NoPayload, err)
\* a call whose request could not be built
NotBuilt(op, id, built) == CallRecord(op, id, built, 0, NoOutcome, NoPayload, built.err)
\* a variant that sends the request a second time when the exchange gave an error
SentRetrying(op, id, built, outcome, val, err) ==
    CallRecord(op, id, built, IF IsError(err) THEN 2 ELSE 1, outcome, val, err)

\* a call that went to the transport once
Sent(op, id, built, outcome, val, err) == CallRecord(op, id, built, 1, outcome, val, err)

\* json.Marshal of a ContactIdentifier: both fields are omitempty pointers
MarshalIdentifier(id) ==
    [err |-> "",
     out |-> DocObject(
        [key \in {k \in {"email", "userId"} :
                    (k = "email" /\ ~IsNil(id.Email)) \/ (k = "userId" /\ ~IsNil(id.UserID))}
            |-> IF key = "email" THEN JStr(Deref(id.Email)) ELSE JStr(Deref(id.UserID))])]

\* the inner value of a nested object that stands for a Go value
InnerOf(v) ==
    CASE v.k = "bool" -> InnerBool(v.b)
      [] v.k = "string" -> "string"
      [] OTHER -> "other"

\* json.Marshal of an Event whose EventProperties and MailingLists are nil:
\* email and userId are omitempty pointers, contactProperties an omitempty map
MarshalEvent(event) ==
    LET props == IF IsNil(event.ContactProperties) THEN EmptyMap
                 ELSE Deref(event.ContactProperties)
        ident == MarshalIdentifier(event).out.obj
        named == MapSet(ident, "eventName", JStr(event.EventName))
    IN  IF \E key \in DOMAIN props : ~Marshalable(props[key])
        THEN [err |-> "json: unsupported type", out |-> NoData]
        ELSE [err |-> "",
              out |-> DocObject(
                 IF DOMAIN props = {} THEN named
                 ELSE MapSet(named, "contactProperties",
                             JObj([key \in DOMAIN props |-> InnerOf(props[key])])))]

\* params := url.Values{}; params.Add("email", ...) / params.Add("userId", ...)
IdentityParams(id) ==
    LET p0 == IF IsNil(id.Email) THEN EmptyMap
              ELSE MapSet(EmptyMap, "email", Deref(id.Email))
    IN  IF IsNil(id.UserID) THEN p0 ELSE MapSet(p0, "userId", Deref(id.UserID))

\* a call that built its request (or failed to) and, if built, sent it once
Dispatched(op, id, built, outcome, sent) ==
    IF IsError(built.err) THEN NotBuilt(op, id, built)
    ELSE Sent(op, id, built, outcome, sent.val, sent.err)

\* the operations that return only an error drop the decoded response
ErrorOnly(sent) == SendResult(NoPayload, sent.err)

\* a variant that answers an empty list with no contact and no error
FirstContactOrNothing(sent) ==
    IF IsError(sent.err) THEN SendResult(NoPayload, sent.err)
    ELSE IF Len(sent.val.list) = 0 THEN SendResult(NoPayload, NoError)
    ELSE SendResult(Payload("contact", IsNil(sent.val.list[1]), EmptyMap,
                            <<sent.val.list[1]>>),
                    NoError)

\* if len(response) == 0 { return nil, ErrContactNotFound }; return response[0], nil
FirstContact(sent) ==
    IF IsError(sent.err) THEN SendResult(NoPayload, sent.err)
    ELSE IF Len(sent.val.list) = 0 THEN SendResult(NoPayload, ErrContactNotFound)
    ELSE SendResult(Payload("contact", IsNil(sent.val.list[1]), EmptyMap,
                            <<sent.val.list[1]>>),
                    NoError)

\* the identifier checks of FindContact and DeleteContact: the error, or nil
ValidateIdentifier(id) ==
    IF IsNil(id.Email) /\ IsNil(id.UserID) THEN ErrIdentifierNeither
    ELSE IF ~IsNil(id.Email) /\ ~IsNil(id.UserID) THEN ErrIdentifierBoth
    ELSE NoError

\* the identifier checks of SendEvent
ValidateEvent(event) ==
    IF IsNil(event.Email) /\ IsNil(event.UserID) THEN ErrEventNeither
    ELSE IF ~IsNil(event.Email) /\ ~IsNil(event.UserID) THEN ErrEventBoth
    ELSE NoError

\* what a call returns when the identifier checks run only after the exchange
LateChecked(invalid, sent) == IF IsError(invalid) THEN SendResult(NoPayload, invalid) ELSE sent

\* a variant that validates only after the request was built and sent
FindContactValidatingLate(c, id, outcome) ==
    Dispatched("FindContact", id,
               newGetRequestWithQueryParams(c, "/contacts/find", IdentityParams(id)),
               outcome,
               LateChecked(ValidateIdentifier(id), FirstContact(sendRequest("Contacts", outcome))))

\* return response.ID, err: response is the *IDResponse that sendRequest decoded,
\* which a null body leaves nil (response.ID then dereferences a nil pointer)
ResponseID(sent) ==
    IF IsError(sent.err) THEN SendResult(NoPayload, sent.err)
    ELSE IF sent.val.isNil THEN SendResult(NoPayload, ErrPanic)
    ELSE SendResult(Payload("id", FALSE, [f \in {"id"} |-> sent.val.fields["id"]], <<>>),
                    NoError)

\* func (c *Client) CreateContact(ctx, contact *Contact) (string, error)
CreateContact(c, newContact, outcome) ==
    Dispatched("CreateContact", NoIdentity,
               newRequestWithBody(c, "POST", "/contacts/create",
                                  Message(MarshalJSON(newContact))),
               outcome, ResponseID(sendRequest("IDResponse", outcome)))

\* func (c *Client) FindContact(ctx, contact *ContactIdentifier) (*Contact, error)
FindContact(c, id, outcome) ==
    IF IsError(ValidateIdentifier(id))
    THEN Rejected("FindContact", id, ValidateIdentifier(id))
    ELSE Dispatched("FindContact", id,
                    newGetRequestWithQueryParams(c, "/contacts/find", IdentityParams(id)),
                    outcome, FirstContact(sendRequest("Contacts", outcome)))

\* func (c *Client) DeleteContact(ctx, contact *ContactIdentifier) error
DeleteContact(c, id, outcome) ==
    IF IsError(ValidateIdentifier(id))
    THEN Rejected("DeleteContact", id, ValidateIdentifier(id))
    ELSE Dispatched("DeleteContact", id,
                    newRequestWithBody(c, "POST", "/contacts/delete",
                                       Message(MarshalIdentifier(id))),
                    outcome, ErrorOnly(sendRequest("MessageResponse", outcome)))

\* func (c *Client) SendEvent(ctx, event *Event) error
SendEvent(c, event, outcome) ==
    IF IsError(ValidateEvent(event))
    THEN Rejected("SendEvent", [Email |-> event.Email, UserID |-> event.UserID],
                  ValidateEvent(event))
    ELSE Dispatched("SendEvent", [Email |-> event.Email, UserID |-> event.UserID],
                    newRequestWithBody(c, "POST", "/events/send", Message(MarshalEvent(event))),
                    outcome, ErrorOnly(sendRequest("MessageResponse", outcome)))

\* if opts.PerPage < 10 || opts.PerPage > 50
MinPerPage == 10
MaxPerPage == 50
ErrPerPage == ErrorNew("validation", "perPage must be between 10 and 50 (inclusive)")

\* strconv.Itoa(n): the decimal text of n
Itoa(n) == ToString(n)

\* params := url.Values{}; params.Add("perPage", strconv.Itoa(opts.PerPage)) when
\* PerPage is not 0; params.Add("cursor", opts.Cursor) when Cursor is not ""
ListParams(options) ==
    [key \in {k \in {"perPage", "cursor"} :
                 (k = "perPage" /\ options.PerPage # 0) \/ (k = "cursor" /\ options.Cursor # "")}
        |-> IF key = "perPage" THEN Itoa(options.PerPage) ELSE options.Cursor]

\* a variant that rejects the boundary values 10 and 50 as well
ListTransactionalEmailsExclusive(c, options, outcome) ==
    IF options.PerPage # 0 /\ (options.PerPage <= MinPerPage \/ options.PerPage >= MaxPerPage)
    THEN WithListOptions(Rejected("ListTransactionalEmails", NoIdentity, ErrPerPage), options)
    ELSE WithListOptions(
            Dispatched("ListTransactionalEmails", NoIdentity,
                       newGetRequestWithQueryParams(c, "/transactional", ListParams(options)),
                       outcome, sendRequest("TransactionalEmailList", outcome)),
            options)

\* func (c *Client) ListTransactionalEmails(ctx, opts) (*TransactionalEmailList, error)
ListTransactionalEmails(c, options, outcome) ==
    IF options.PerPage # 0 /\ (options.PerPage < MinPerPage \/ options.PerPage > MaxPerPage)
    THEN WithListOptions(Rejected("ListTransactionalEmails", NoIdentity, ErrPerPage), options)
    ELSE WithListOptions(
            Dispatched("ListTransactionalEmails", NoIdentity,
                       newGetRequestWithQueryParams(c, "/transactional", ListParams(options)),
                       outcome, sendRequest("TransactionalEmailList", outcome)),
            options)

\* func (c *Client) TestAPIKey(ctx) (*APIKeyInfo, error)
TestAPIKey(c, outcome) ==
    Dispatched("TestAPIKey", NoIdentity,
               newGetRequestWithQueryParams(c, "/api-key", EmptyMap),
               outcome, sendRequest("APIKeyInfo", outcome))

----------------------------------------------------------------------------
(* The codec as a state machine: a caller constructs a Contact and encodes it,
   and the bytes are decoded into a fresh Contact (SpecEncode); or bytes are
   received and decoded into a fresh Contact, which is encoded again
   (SpecDecode). *)

InitEncode ==
    /\ \E req \in RequiredSettings, present \in OptionalSets, props \in PropertyMaps :
          \E ml \in IF "mailingLists" \in present THEN MailingListMaps ELSE {EmptyMap} :
              contact = MakeContact(req, present, ml, props)
    /\ contact0 = contact
    /\ data = NoData
    /\ data0 = NoData
    /\ cerr = ""
    /\ phase = "constructed"
    /\ opts = DefaultConfig
    /\ client = NewClient(opts)
    /\ call = IdleCall
    /\ calls = <<>>

InitDecode ==
    /\ \/ \E req \in RequiredWireMaps, opt \in OptionalWireMaps, unk \in UnknownWireMaps :
              data = WireObject(req, opt, unk)
       \/ data \in {DocNull, DocString, DocText, DocEmpty, DocArray(<<>>)}
    /\ data0 = data
    /\ contact = ZeroContact
    /\ contact0 = ZeroContact
    /\ cerr = ""
    /\ phase = "received"
    /\ opts = DefaultConfig
    /\ client = NewClient(opts)
    /\ call = IdleCall
    /\ calls = <<>>

\* json.Marshal(&contact)
Marshal ==
    /\ phase \in {"constructed", "decoded"}
    /\ cerr = ""
    /\ LET r == MarshalJSON(contact)
       IN  /\ data' = r.out
           /\ cerr' = r.err
    /\ phase' = IF phase = "constructed" THEN "encoded" ELSE "reencoded"
    /\ UNCHANGED <<contact, contact0, data0, clientVars>>

\* var c Contact; json.Unmarshal(data, &c)
Unmarshal ==
    /\ phase \in {"received", "encoded"}
    /\ cerr = ""
    /\ LET r == UnmarshalJSON(ZeroContact, data)
       IN  /\ contact' = r.c
           /\ cerr' = r.err
    /\ phase' = IF phase = "received" THEN "decoded" ELSE "roundtrip"
    /\ UNCHANGED <<data, contact0, data0, clientVars>>

NextCodec == Marshal \/ Unmarshal

SpecEncode == InitEncode /\ [][NextCodec]_vars
SpecDecode == InitDecode /\ [][NextCodec]_vars


----------------------------------------------------------------------------
(* The client as a state machine: NewClient has returned a Client; a caller
   issues one operation at a time, the transport answers, and the call
   returns. *)

\* interceptors a caller may register: two that set a header, one that fails
CustomInterceptors ==
    {Interceptor("set-authorization", "Authorization", <<"Basic", "custom">>, FALSE),
     Interceptor("set-content-type", "Content-Type", <<"text/plain">>, FALSE),
     Interceptor("refuse", "", <<>>, TRUE)}

InterceptorLists == UNION {[1..n -> CustomInterceptors] : n \in 0..MaxInterceptors}
APIKeys == {"", "API_KEY"}

Identifiers == [Email : {Nil, String("test@example.com")}, UserID : {Nil, String("user_123")}]
Events ==
    [Email : {Nil, String("test@example.com")}, UserID : {Nil, String("user_123")},
     EventName : {"joinedMission"},
     ContactProperties : {Nil, Ptr([key \in {"plan"} |-> GoStr("blue")]),
                          Ptr([key \in {"plan"} |-> GoChan])}]

\* the contacts a caller may pass to CreateContact
NewContacts ==
    {MakeContact([ID |-> "", Email |-> "test@example.com", Subscribed |-> TRUE],
                 {}, EmptyMap, props) :
        props \in {Nil, Ptr([key \in {"plan"} |-> GoStr("blue")]),
                   Ptr([key \in {"plan"} |-> GoChan])}}

\* the options a caller may pass to ListTransactionalEmails
PerPages == {-1, 0, 5, 9, 10, 20, 50, 51, 60}
ListOptions ==
    [PerPage : PerPages, Cursor : {""}] \cup [PerPage : {0, 20}, Cursor : {"cursor_1"}]

\* the values a response object may carry under each of its keys
BodyValues(key) ==
    CASE key = "error" -> {JNull, JStr(""), JStr("bad request"), JBool(FALSE)}
      [] key = "message" -> {JStr(""), JStr("oops"), JBool(FALSE)}
      [] key = "success" -> {JBool(FALSE), JStr("no")}
BodyKeys == {"error", "message", "success"}
BodyObjects ==
    UNION {{f \in [S -> UNION {BodyValues(key) : key \in BodyKeys}] :
                \A key \in S : f[key] \in BodyValues(key)} : S \in SUBSET BodyKeys}

\* the entries of the list a find-contact response carries
ContactElements ==
    {DocObject([key \in RequiredKeys |->
                   IF key = "subscribed" THEN JBool(TRUE) ELSE JStr("123")]),
     DocObject([key \in {"id"} |-> JStr("123")]),
     DocNull}
ContactLists == UNION {[1..n -> ContactElements] : n \in 0..MaxContacts}

Bodies ==
    {DocObject(o) : o \in BodyObjects} \cup {DocArray(l) : l \in ContactLists}
        \cup {DocNull, DocString, DocText, DocEmpty}
Statuses == {200, 299, 300, 400}
\* the errors Do may return: a connection failure, a timeout, the expiry or the
\* cancellation of the context of the call
TransportCauses ==
    {"dial tcp: connection refused", "i/o timeout", "context deadline exceeded",
     "context canceled"}
Outcomes ==
    {TransportFailure(cause, 0, NoData) : cause \in TransportCauses}
        \cup {TransportFailure("redirect refused", 200,
                                DocObject([key \in {"success"} |-> JBool(FALSE)])),
              ReadError(200)}
        \cup {Response(status, body) : status \in Statuses, body \in Bodies}

\* the base URLs a caller may configure: the default, an override with and
\* without a trailing slash, and an override without a path
BaseURLs ==
    {defaultURL,
     URLText("example.com", <<"/", "custom", "/">>),
     URLText("example.com", <<"/", "custom">>),
     URLText("localhost:8080", <<>>)}

\* an overridden base URL is explored with the interceptors NewClient installs
Init ==
    /\ \E apiKey \in APIKeys, interceptors \in InterceptorLists, apiURL \in BaseURLs :
          /\ apiURL = defaultURL \/ interceptors = <<>>
          /\ opts = WithRequestInterceptors(
                        WithAPIKey(WithURL(DefaultConfig, apiURL), apiKey), interceptors)
    /\ client = NewClient(opts)
    /\ call = IdleCall
    /\ calls = <<>>
    /\ contact = ZeroContact
    /\ contact0 = ZeroContact
    /\ data = NoData
    /\ data0 = NoData
    /\ cerr = ""
    /\ phase = "unused"

\* the caller keeps the Contact it passes in contact until the call returns
DoCreateContact ==
    /\ call.op = "idle"
    /\ \E newContact \in NewContacts, outcome \in Outcomes :
          /\ contact' = newContact
          /\ call' = CreateContact(client, newContact, outcome)
    /\ UNCHANGED <<opts, client, calls, contact0, data, data0, cerr, phase>>

DoFindContact ==
    /\ call.op = "idle"
    /\ \E id \in Identifiers, outcome \in Outcomes : call' = FindContact(client, id, outcome)
    /\ UNCHANGED <<opts, client, calls, codecVars>>

DoDeleteContact ==
    /\ call.op = "idle"
    /\ \E id \in Identifiers, outcome \in Outcomes : call' = DeleteContact(client, id, outcome)
    /\ UNCHANGED <<opts, client, calls, codecVars>>

DoSendEvent ==
    /\ call.op = "idle"
    /\ \E event \in Events, outcome \in Outcomes : call' = SendEvent(client, event, outcome)
    /\ UNCHANGED <<opts, client, calls, codecVars>>

DoTestAPIKey ==
    /\ call.op = "idle"
    /\ \E outcome \in Outcomes : call' = TestAPIKey(client, outcome)
    /\ UNCHANGED <<opts, client, calls, codecVars>>

DoListTransactionalEmails ==
    /\ call.op = "idle"
    /\ \E options \in ListOptions, outcome \in Outcomes :
          call' = ListTransactionalEmails(client, options, outcome)
    /\ UNCHANGED <<opts, client, calls, codecVars>>

\* the caller has the result; the call's working data is discarded
Return ==
    /\ call.op # "idle"
    /\ call' = IdleCall
    /\ contact' = ZeroContact
    /\ UNCHANGED <<opts, client, calls, contact0, data, data0, cerr, phase>>

Next ==
    \/ DoCreateContact
    \/ DoFindContact
    \/ DoDeleteContact
    \/ DoSendEvent
    \/ DoTestAPIKey
    \/ DoListTransactionalEmails
    \/ Return

Spec == Init /\ [][Next]_vars

----------------------------------------------------------------------------
(* Calls running at once on one client. Each call is a goroutine running one
   operation; its steps are the statements of the operation that touch the
   client or the transport: the identifier checks, newRequestWithBody (which
   reads c.apiURL and c.requestInterceptors), c.httpClient.Do, and the decoding
   in sendRequest. The request, the response and the result are local variables
   of the call. *)

\* the local variables of one call: req (built), resp (outcome) and what it
\* returns (record); answer keeps what the transport gave this call (history)
Frame(pc, op, id, built, outcome, record) ==
    [pc |-> pc, op |-> op, id |-> id, built |-> built, outcome |-> outcome,
     answer |-> outcome, record |-> record]
IdleFrame == Frame("idle", "idle", NoIdentity, NothingBuilt, NoOutcome, IdleCall)

\* a variant in which the calls in flight share one response variable
StoreFrameShared(frames, i, frame) ==
    [j \in DOMAIN frames |->
        IF j = i THEN frame
        ELSE IF frames[j].pc \in {"built", "answered"}
        THEN [frames[j] EXCEPT !.outcome = frame.outcome]
        ELSE frames[j]]

\* a call writes its own local variables
StoreFrame(frames, i, frame) == [frames EXCEPT ![i] = frame]

\* the operations the concurrent callers issue, and what they pass
ConcurrentOps == {"FindContact", "TestAPIKey"}
ConcurrentIdentifiers(op) ==
    IF op = "FindContact"
    THEN {NoIdentity, [Email |-> String("test@example.com"), UserID |-> Nil]}
    ELSE {NoIdentity}
ConcurrentInterceptorLists ==
    {<<>>} \cup {<<i>> : i \in CustomInterceptors}
ConcurrentOutcomes ==
    {TransportError,
     Response(200, DocObject([key \in {"success"} |-> JBool(FALSE)])),
     Response(200, DocArray(<<>>)),
     Response(400, DocObject([key \in {"error"} |-> JStr("bad request")]))}

InitConcurrent ==
    /\ \E interceptors \in ConcurrentInterceptorLists :
          opts = WithRequestInterceptors(WithAPIKey(DefaultConfig, "API_KEY"), interceptors)
    /\ client = NewClient(opts)
    /\ call = IdleCall
    /\ calls = [i \in 1..MaxCalls |-> IdleFrame]
    /\ contact = ZeroContact
    /\ contact0 = ZeroContact
    /\ data = NoData
    /\ data0 = NoData
    /\ cerr = ""
    /\ phase = "unused"

\* a goroutine enters an operation and runs its identifier checks
Enter(i) ==
    /\ calls[i].pc = "idle"
    /\ \E op \in ConcurrentOps : \E id \in ConcurrentIdentifiers(op) :
          calls' = StoreFrame(calls, i,
              IF op = "FindContact" /\ IsError(ValidateIdentifier(id))
              THEN Frame("returned", op, id, NothingBuilt, NoOutcome,
                         Rejected(op, id, ValidateIdentifier(id)))
              ELSE Frame("entered", op, id, NothingBuilt, NoOutcome, IdleCall))
    /\ UNCHANGED <<opts, client, call, codecVars>>

\* the request the operation of a frame builds on client c
BuildFor(c, frame) ==
    IF frame.op = "FindContact"
    THEN newGetRequestWithQueryParams(c, "/contacts/find", IdentityParams(frame.id))
    ELSE newGetRequestWithQueryParams(c, "/api-key", EmptyMap)

\* the frame after the request was built, or could not be
Built(frame, built) ==
    IF IsError(built.err)
    THEN [frame EXCEPT !.pc = "returned", !.built = built,
                       !.record = NotBuilt(frame.op, frame.id, built)]
    ELSE [frame EXCEPT !.pc = "built", !.built = built]

\* req, err := newGetRequestWithQueryParams(c, ctx, path, params)
Build(i) ==
    /\ calls[i].pc = "entered"
    /\ calls' = StoreFrame(calls, i, Built(calls[i], BuildFor(client, calls[i])))
    /\ UNCHANGED <<opts, client, call, codecVars>>

\* resp, err := c.httpClient.Do(req)
RoundTrip(i) ==
    /\ calls[i].pc = "built"
    /\ \E outcome \in ConcurrentOutcomes :
          calls' = StoreFrame(calls, i, [calls[i] EXCEPT !.pc = "answered", !.outcome = outcome,
                                                      !.answer = outcome])
    /\ UNCHANGED <<opts, client, call, codecVars>>

\* what the operation of a frame makes of the result of sendRequest
ResultFor(frame, sent) == IF frame.op = "FindContact" THEN FirstContact(sent) ELSE sent

\* the rest of sendRequest and the return of the operation
Finish(i) ==
    /\ calls[i].pc = "answered"
    /\ calls' = StoreFrame(calls, i,
          [calls[i] EXCEPT
              !.pc = "returned",
              !.record = Dispatched(calls[i].op, calls[i].id, calls[i].built, calls[i].outcome,
                                    ResultFor(calls[i],
                                              sendRequest(IF calls[i].op = "FindContact"
                                                          THEN "Contacts" ELSE "APIKeyInfo",
                                                          calls[i].outcome)))])
    /\ UNCHANGED <<opts, client, call, codecVars>>

NextConcurrent == \E i \in 1..MaxCalls : Enter(i) \/ Build(i) \/ RoundTrip(i) \/ Finish(i)

SpecConcurrent == InitConcurrent /\ [][NextConcurrent]_vars

----------------------------------------------------------------------------
(* Vocabulary of the claims about the codec *)

\* the extension mapping as a set of key/value pairs, the values as JSON
PropertyPairs(props) ==
    IF IsNil(props) THEN {}
    ELSE {<<key, ToJSON(Deref(props)[key])>> : key \in DOMAIN Deref(props)}

PropertyKeys(props) == IF IsNil(props) THEN {} ELSE DOMAIN Deref(props)

\* the known attributes of a contact, the extension mapping left out
Known(c) == [c EXCEPT !.Properties = Nil]

\* the known attribute under key is present in c (a required one always is)
KnownPresent(c, key) == key \in RequiredKeys \/ ~IsNil(c[FieldOf(key)])

\* the JSON value of the known attribute under key, for one that is present
KnownJSON(c, key) ==
    CASE key = "id" -> JStr(c.ID)
      [] key = "email" -> JStr(c.Email)
      [] key = "subscribed" -> JBool(c.Subscribed)
      [] key = "mailingLists" ->
            JObj([l \in DOMAIN Deref(c.MailingLists) |->
                     IF Deref(c.MailingLists)[l] THEN "true" ELSE "false"])
      [] OTHER -> JStr(Deref(c[FieldOf(key)]))

\* an input object carries a well-typed value under a known key
WireString(o, key) == key \in DOMAIN o /\ o[key].k = "string"
WireBool(o, key) == key \in DOMAIN o /\ o[key].k = "bool"
WireBoolObject(o, key) ==
    /\ key \in DOMAIN o
    /\ o[key].k = "object"
    /\ \A l \in DOMAIN o[key].m : o[key].m[l] \in {"true", "false"}
WireWellTyped(o, key) ==
    CASE key = "subscribed" -> WireBool(o, key)
      [] key = "mailingLists" -> WireBoolObject(o, key)
      [] OTHER -> WireString(o, key)

RequiredValid(o) == \A key \in RequiredKeys : WireWellTyped(o, key)
OptionalsValid(o) == \A key \in OptionalKeys \cap DOMAIN o : WireWellTyped(o, key)

----------------------------------------------------------------------------
(* C1: encoding a contact and decoding the bytes into a fresh contact gives
   back the same known attributes and, as a set of key/value pairs, the same
   extension mapping *)
C1_RoundTripIdentity ==
    (phase = "roundtrip" /\ contact0.ID # "" /\ contact0.Email # "") =>
        /\ cerr = ""
        /\ Known(contact) = Known(contact0)
        /\ PropertyPairs(contact.Properties) = PropertyPairs(contact0.Properties)

(* C2: in the encoded object a key that is both a known attribute of the
   contact and a key of its extension mapping carries the known attribute's
   value *)
C2_KnownWinsOnEncode ==
    (phase = "encoded" /\ cerr = "") =>
        \A key \in KnownKeys \cap PropertyKeys(contact0.Properties) :
            KnownPresent(contact0, key) => data.obj[key] = KnownJSON(contact0, key)

----------------------------------------------------------------------------
(* Vocabulary of the claims about the client *)

\* the call went to the transport and a response with a failure status came back
FailureResponse ==
    call.dispatches = 1 /\ call.outcome.fail = "" /\ call.outcome.status >= 300

\* the body is a JSON object that carries a non-empty string under key
HasText(body, key) ==
    /\ body.kind = "object"
    /\ key \in DOMAIN body.obj
    /\ body.obj[key].k = "string"
    /\ body.obj[key].s # ""

\* the "success" member of an object, if there is one, is a boolean or null
SuccessTyped(body) ==
    "success" \in DOMAIN body.obj => body.obj["success"].k \in {"bool", "null"}

\* the interceptors a call ran, by name, as the options and NewClient fix them
CustomNames ==
    [i \in DOMAIN opts.requestInterceptors |-> opts.requestInterceptors[i].name]
AuthNames == IF opts.apiKey # "" THEN <<"auth">> ELSE <<>>

\* how many of the two identity fields are set, and the ones that are
IdentityCount(id) ==
    (IF IsNil(id.Email) THEN 0 ELSE 1) + (IF IsNil(id.UserID) THEN 0 ELSE 1)
IdentityFields(id) ==
    [key \in {k \in {"email", "userId"} : ~IsNil(IF k = "email" THEN id.Email ELSE id.UserID)}
        |-> IF key = "email" THEN id.Email[1] ELSE id.UserID[1]]

\* the identity fields a built request carries: the query of a find-contact
\* request, the members of the body of the others
CarriedIdentity(c) ==
    IF c.op = "FindContact" THEN c.req.query
    ELSE [key \in DOMAIN c.req.body.obj \cap {"email", "userId"} |-> c.req.body.obj[key].s]

\* a response body that decodes as a list of contacts with no entries
EmptyList(body) == (body.kind = "array" /\ Len(body.arr) = 0) \/ body.kind = "null"

----------------------------------------------------------------------------
(* C3, as stated: on a failure status, a body that is an object with a
   non-empty "error" string gives an error with exactly that message; otherwise
   a body that is an object with a non-empty "message" string gives an error
   with exactly that message *)
C3_ErrorShapeOrder ==
    FailureResponse =>
        LET body == call.outcome.body
        IN  /\ HasText(body, "error") => call.err = ErrorNew("remote", body.obj["error"].s)
            /\ (~HasText(body, "error") /\ HasText(body, "message"))
                  => call.err = ErrorNew("remote", body.obj["message"].s)

(* C3, amended: the second shape is {success: bool, message: string}; its
   message is surfaced when the body has no non-empty "error" string, has a
   non-empty "message" string, and its "success" member, if any, is a boolean
   or null *)
C3_ErrorShapeOrderTyped ==
    FailureResponse =>
        LET body == call.outcome.body
        IN  /\ HasText(body, "error") => call.err = ErrorNew("remote", body.obj["error"].s)
            /\ (~HasText(body, "error") /\ HasText(body, "message") /\ SuccessTyped(body))
                  => call.err = ErrorNew("remote", body.obj["message"].s)

C3_Witness ==
    /\ FailureResponse
    /\ call.outcome.status = 400
    /\ HasText(call.outcome.body, "error")
    /\ HasText(call.outcome.body, "message")
    /\ call.err = ErrorNew("remote", "bad request")

(* C4: on a failure status, a body that matches neither error shape (no
   non-empty "error" string, no non-empty "message" string; plain text, a JSON
   string and the empty body included) gives an error whose message is the raw
   body, and the failure path never returns an unmarshal error *)
C4_RawBodyCatchAll ==
    FailureResponse =>
        LET body == call.outcome.body
        IN  /\ (~HasText(body, "error") /\ ~HasText(body, "message"))
                  => call.err = ErrorRaw(body)
            /\ call.err # ErrUnmarshalErrorMessage

(* C5: FindContact, DeleteContact and SendEvent with neither or both identity
   fields set return a validation error with no request built, no interceptor
   run and no transport dispatch; with exactly one set they return no
   validation error, and the request they build carries exactly that field
   (a request is not built only when serialising or an interceptor fails) *)
C5_IdentityValidatedFirst ==
    call.op \in {"FindContact", "DeleteContact", "SendEvent"} =>
        /\ IdentityCount(call.id) # 1 =>
              /\ call.err.kind = "validation"
              /\ call.dispatches = 0
              /\ ~call.built
              /\ call.log = <<>>
        /\ IdentityCount(call.id) = 1 =>
              /\ call.err.kind # "validation"
              /\ call.built => CarriedIdentity(call) = IdentityFields(call.id)
              /\ ~call.built => call.err \in {ErrMarshalMessage, ErrInterceptor}

C5_Witness ==
    /\ call.op = "FindContact"
    /\ IdentityCount(call.id) = 2
    /\ call.err = ErrIdentifierBoth
    /\ call.dispatches = 0

(* C6: when the response to FindContact has a status below 300 and its body
   decodes as a list with no entries, the call returns ErrContactNotFound and
   no contact *)
C6_EmptyListIsNotFound ==
    (/\ call.op = "FindContact"
     /\ call.dispatches = 1
     /\ call.outcome.fail = ""
     /\ call.outcome.status < 300
     /\ EmptyList(call.outcome.body)) =>
        (call.err = ErrContactNotFound /\ call.val = NoPayload)

C6_Witness ==
    /\ call.op = "FindContact"
    /\ call.dispatches = 1
    /\ call.outcome = Response(200, DocArray(<<>>))
    /\ call.err = ErrContactNotFound

(* C7, as stated: the interceptors of a request run in the order
   authentication (when an API key is configured), the caller's interceptors
   in registration order, content-type *)
C7_AuthRunsFirst ==
    call.built => call.log = AuthNames \o CustomNames \o <<"content-type">>

(* C7, amended: the interceptors of a request run in the order the caller's
   interceptors in registration order, authentication (when an API key is
   configured), content-type *)
C7_CustomRunFirst ==
    call.built => call.log = CustomNames \o AuthNames \o <<"content-type">>

C7_Witness ==
    /\ call.built
    /\ opts.apiKey # ""
    /\ call.log = <<"set-content-type", "set-authorization", "auth", "content-type">>

\* a response came back for the call (the transport and the read succeeded)
Responded == call.dispatches = 1 /\ call.outcome.fail = ""

\* the body decodes as an APIKeyInfo: the literal null, or an object whose
\* "success" and "teamName" members, if any, are a boolean and a string (or null)
DecodesAsAPIKeyInfo(body) ==
    \/ body.kind = "null"
    \/ /\ body.kind = "object"
       /\ "success" \in DOMAIN body.obj => body.obj["success"].k \in {"bool", "null"}
       /\ "teamName" \in DOMAIN body.obj => body.obj["teamName"].k \in {"string", "null"}

(* C11: TestAPIKey, which returns what sendRequest returns, yields a payload and
   no error exactly when the status is below 300 and the body decodes as the
   expected type; below 300 with a body that does not decode it yields the
   decoding error, and from 300 on it yields an error and no payload *)
C11_PayloadIffSuccessStatus ==
    (call.op = "TestAPIKey" /\ Responded) =>
        /\ (call.err = NoError /\ call.val # NoPayload)
              <=> (call.outcome.status < 300 /\ DecodesAsAPIKeyInfo(call.outcome.body))
        /\ (call.outcome.status < 300 /\ ~DecodesAsAPIKeyInfo(call.outcome.body))
              => (call.err = ErrUnmarshalResponse /\ call.val = NoPayload)
        /\ call.outcome.status >= 300 => (call.err # NoError /\ call.val = NoPayload)

C11_Witness ==
    /\ call.op = "TestAPIKey"
    /\ Responded
    /\ call.outcome.status = 299
    /\ call.outcome.body.kind = "object"
    /\ DOMAIN call.outcome.body.obj = {"success"}
    /\ call.err = NoError
    /\ call.val.kind = "struct"

\* the decimal text of the page sizes the model passes
DecimalText(n) ==
    CASE n = 10 -> "10"
      [] n = 20 -> "20"
      [] n = 50 -> "50"

(* C12: ListTransactionalEmails with a non-zero PerPage below 10 or above 50
   returns a validation error with no request built and no transport dispatch;
   with PerPage in 10..50 the request it builds carries perPage with that value;
   with PerPage 0 the request it builds has no perPage parameter *)
C12_PerPageBounds ==
    call.op = "ListTransactionalEmails" =>
        LET per == call.list.PerPage
        IN  /\ (per # 0 /\ (per < 10 \/ per > 50)) =>
                  /\ call.err.kind = "validation"
                  /\ call.dispatches = 0
                  /\ ~call.built
                  /\ call.log = <<>>
            /\ (per >= 10 /\ per <= 50) =>
                  /\ call.err.kind # "validation"
                  /\ call.built =>
                        /\ "perPage" \in DOMAIN call.req.query
                        /\ call.req.query["perPage"] = DecimalText(per)
                  /\ ~call.built => call.err = ErrInterceptor
            /\ per = 0 =>
                  /\ call.err.kind # "validation"
                  /\ call.built => "perPage" \notin DOMAIN call.req.query
                  /\ ~call.built => call.err = ErrInterceptor

C12_Witness ==
    /\ call.op = "ListTransactionalEmails"
    /\ call.list.PerPage = 50
    /\ call.built
    /\ call.dispatches = 1
    /\ call.req.query["perPage"] = "50"

\* the message of an error is empty: errors.New("") or errors.New(string(body))
\* of a body without bytes
EmptyMessage(e) == IF e.raw = NoData THEN e.text = "" ELSE e.raw.kind = "empty"

(* C13: for every failure status and every response body the call returns an
   error (it does not abort) and the message of that error is not empty *)
C13_ErrorMessageNonEmpty ==
    FailureResponse =>
        /\ IsError(call.err)
        /\ call.err.kind # "panic"
        /\ ~EmptyMessage(call.err)

\* what the operation of a frame returns when it runs alone on the client that
\* NewClient returned and the transport gives it the same answer
Alone(frame) ==
    IF frame.op = "FindContact" THEN FindContact(NewClient(opts), frame.id, frame.answer)
    ELSE TestAPIKey(NewClient(opts), frame.answer)

(* C14: while calls run at once on one client, in every interleaving of their
   steps, the client stays as NewClient returned it, and every call that has
   returned has the result it would have had running alone, with the request and
   the response it worked on *)
C14_ConcurrentCallsSafe ==
    /\ client = NewClient(opts)
    /\ \A i \in DOMAIN calls :
          calls[i].pc = "returned" =>
              /\ calls[i].record = Alone(calls[i])
              /\ calls[i].record.op = calls[i].op
              /\ calls[i].record.outcome = calls[i].answer

C14_Witness ==
    /\ DOMAIN calls = 1..MaxCalls
    /\ calls[1].pc = "returned"
    /\ calls[1].op = "TestAPIKey"
    /\ calls[1].record.err = ErrorNew("remote", "bad request")
    /\ calls[2].pc = "answered"
    /\ calls[2].op = "FindContact"
    /\ calls[2].outcome = Response(200, DocArray(<<>>))

(* C15: when Do returns an error, the call returns an error that wraps that
   error and no payload, and nothing of a response that came with the error
   is read or decoded into the result *)
C15_TransportErrorWrapped ==
    (call.dispatches = 1 /\ call.outcome.fail = "do") =>
        /\ call.err.kind = "transport"
        /\ call.err.cause = call.outcome.cause
        /\ call.err.raw = NoData
        /\ call.val = NoPayload

C15_Witness ==
    /\ call.op = "TestAPIKey"
    /\ call.dispatches = 1
    /\ call.outcome.fail = "do"
    /\ call.outcome.cause = "context deadline exceeded"
    /\ call.err.cause = "context deadline exceeded"
    /\ call.val = NoPayload

\* the values the caller's interceptors set for a header, in registration order
CustomValues(header) ==
    {opts.requestInterceptors[i].value :
        i \in {j \in DOMAIN opts.requestInterceptors :
                  opts.requestInterceptors[j].header = header}}

(* C16: a request that is dispatched carries Authorization: Bearer <key> when
   the client was given a non-empty API key; when it was given none the client
   adds no Authorization header (the header is absent unless a caller's
   interceptor set it); and it always carries Content-Type: application/json,
   whatever a caller's interceptor set *)
C16_HeadersOfDispatchedRequest ==
    call.dispatches = 1 =>
        LET header == call.req.header
        IN  /\ opts.apiKey # "" =>
                  /\ "Authorization" \in DOMAIN header
                  /\ header["Authorization"] = <<"Bearer", opts.apiKey>>
            /\ opts.apiKey = "" =>
                  /\ CustomValues("Authorization") = {} => "Authorization" \notin DOMAIN header
                  /\ "Authorization" \in DOMAIN header =>
                        header["Authorization"] \in CustomValues("Authorization")
            /\ "Content-Type" \in DOMAIN header
            /\ header["Content-Type"] = <<"application/json">>

C16_Witness ==
    /\ call.dispatches = 1
    /\ opts.apiKey = "API_KEY"
    /\ CustomValues("Authorization") # {}
    /\ CustomValues("Content-Type") # {}
    /\ call.req.header["Authorization"] = <<"Bearer", "API_KEY">>
    /\ call.req.header["Content-Type"] = <<"application/json">>

\* the position of the first interceptor of the chain that fails (0: none does)
FirstFailing(chain) ==
    IF \E i \in DOMAIN chain : chain[i].fails
    THEN CHOOSE i \in DOMAIN chain : chain[i].fails /\ \A j \in 1..(i - 1) : ~chain[j].fails
    ELSE 0

(* C17: when an interceptor of the chain fails while a request is being built
   (the call passed its checks and its message was serialised), the
   interceptors before it and it are invoked and none after it, the call
   returns that interceptor's error, and the transport is not invoked *)
C17_InterceptorShortCircuit ==
    (/\ call.op # "idle"
     /\ call.err.kind \notin {"validation", "marshal"}
     /\ FirstFailing(client.requestInterceptors) # 0) =>
        /\ call.err = ErrInterceptor
        /\ call.log = [i \in 1..FirstFailing(client.requestInterceptors) |->
                          client.requestInterceptors[i].name]
        /\ call.dispatches = 0
        /\ ~call.built

C17_Witness ==
    /\ call.op = "TestAPIKey"
    /\ Len(opts.requestInterceptors) = 2
    /\ opts.requestInterceptors[1].name = "refuse"
    /\ call.err = ErrInterceptor
    /\ call.log = <<"refuse">>
    /\ call.dispatches = 0

\* the "mailingLists" member of an input object is an object with a member that
\* is not a boolean
MailingListsIllTyped(o) ==
    /\ "mailingLists" \in DOMAIN o
    /\ o["mailingLists"].k = "object"
    /\ \E l \in DOMAIN o["mailingLists"].m : o["mailingLists"].m[l] \notin {"true", "false"}

(* C18: decoding an object with valid required fields whose mailingLists
   object holds a value that is not a boolean returns an error to the caller
   (the decode does not panic) and fills no record *)
C18_MailingListsErrorReturned ==
    (/\ phase = "decoded"
     /\ data0.kind = "object"
     /\ RequiredValid(data0.obj)
     /\ MailingListsIllTyped(data0.obj)) =>
        /\ cerr # ""
        /\ cerr # PanicTypeAssertion
        /\ contact = ZeroContact

(* C19: when decoding returns an error, every field of the receiving Contact
   has the value it had before the call (the receiver is a fresh Contact) *)
C19_FailedDecodeLeavesReceiver ==
    (phase = "decoded" /\ cerr # "" /\ cerr # PanicTypeAssertion) => contact = ZeroContact

(* C20: on a failure status, a body that is an object whose "error" is absent
   or "" does not give an error built from the empty string: the call returns
   the message of the {success, message} shape when the body has that shape
   with a non-empty message, and the raw body otherwise *)
C20_EmptyErrorFallsThrough ==
    (/\ FailureResponse
     /\ call.outcome.body.kind = "object"
     /\ ("error" \in DOMAIN call.outcome.body.obj
            => call.outcome.body.obj["error"] = JStr(""))) =>
        LET body == call.outcome.body
        IN  /\ call.err # ErrorNew("remote", "")
            /\ IF HasText(body, "message") /\ SuccessTyped(body)
               THEN call.err = ErrorNew("remote", body.obj["message"].s)
               ELSE call.err = ErrorRaw(body)

\* an input object carries, under an optional known key, a value whose JSON
\* type is not the attribute's
WrongJSONType(o, key) ==
    /\ key \in DOMAIN o
    /\ o[key].k # (IF key = "mailingLists" THEN "object" ELSE "string")

\* the input object without one of its keys
WithoutKey(doc, key) == DocObject(MapDelete(doc.obj, key))

(* C21: decoding an object with valid required fields in which an optional
   known key is absent or carries a value of the wrong JSON type succeeds,
   leaves that attribute absent, and gives the record that decoding the same
   object without the key gives *)
C21_OptionalKeysLenient ==
    (/\ phase = "decoded"
     /\ data0.kind = "object"
     /\ RequiredValid(data0.obj)
     /\ ~MailingListsIllTyped(data0.obj)) =>
        \A key \in OptionalKeys :
            (key \notin DOMAIN data0.obj \/ WrongJSONType(data0.obj, key)) =>
                /\ cerr = ""
                /\ ~KnownPresent(contact, key)
                /\ contact = UnmarshalJSON(ZeroContact, WithoutKey(data0, key)).c

(* C22: after a successful decode no key of the input is represented twice:
   a key consumed into a known attribute is not a key of the extension
   mapping, and every key of the input is either consumed into its known
   attribute or carried by the extension mapping *)
C22_NoDoubleRepresentation ==
    (phase = "decoded" /\ cerr = "" /\ data0.kind = "object") =>
        /\ \A key \in KnownKeys :
              KnownPresent(contact, key) => key \notin PropertyKeys(contact.Properties)
        /\ \A key \in DOMAIN data0.obj :
              (key \in KnownKeys /\ KnownPresent(contact, key))
                  \/ key \in PropertyKeys(contact.Properties)

C22_Witness ==
    /\ phase = "decoded"
    /\ cerr = ""
    /\ data0.kind = "object"
    /\ DOMAIN data0.obj = KnownKeys \cup {"favoriteColor"}
    /\ \A key \in OptionalKeys : KnownPresent(contact, key)
    /\ PropertyKeys(contact.Properties) = {"favoriteColor"}

(* C23: the encoded object carries id, email and subscribed for every
   contact, also when they hold "" or false, and carries the key of an
   optional known attribute exactly when the attribute is present: the key of
   an absent optional attribute is not in the object, with null or otherwise *)
C23_RequiredAlwaysOptionalIffPresent ==
    (phase = "encoded" /\ cerr = "") =>
        /\ RequiredKeys \subseteq DOMAIN data.obj
        /\ \A key \in OptionalKeys :
              /\ key \in DOMAIN data.obj <=> KnownPresent(contact0, key)
              /\ key \in DOMAIN data.obj => data.obj[key] # JNull

\* the call returned an error of validation or of building the request
ConstructionFailed ==
    call.err.kind = "validation" \/ call.err = ErrMarshalMessage \/ call.err = ErrInterceptor

(* C24: a call invokes the transport at most once: exactly once when the
   checks of its arguments passed and its request was built, whatever the
   transport then answered, and not at all when the call returned an error of
   validation or of building the request *)
C24_DispatchedAtMostOnce ==
    (call.op # "idle") =>
        /\ call.dispatches \in {0, 1}
        /\ call.dispatches = 1 <=> call.built
        /\ call.built <=> ~ConstructionFailed
        /\ call.dispatches = 1 <=> call.outcome # NoOutcome

C24_Witness ==
    /\ call.op = "SendEvent"
    /\ call.built
    /\ call.dispatches = 1
    /\ call.outcome.fail = ""
    /\ call.outcome.status = 400
    /\ call.outcome.body = DocText
    /\ IsError(call.err)

\* the names in a parsed path: its elements other than the empty ones that
\* stand before the leading and after the trailing separator
IsName(elem) == elem # ""
Names(elems) == SelectSeq(elems, IsName)

(* C25: the URL of every request built has the host of the configured base
   URL, and its path is the whole path of the base URL followed by the
   endpoint path: every name of the base path is kept, whether the base ends
   with a separator or not *)
C25_PathRelativeToBase ==
    (call.op # "idle" /\ call.built) =>
        /\ call.req.url.host = client.apiURL.host
        /\ Names(call.req.url.path) =
              Names(client.apiURL.path) \o Names(SplitPath(PathText(call.req.path)))

\* the Contact passed to CreateContact holds a value JSON cannot represent
Unserializable(c) ==
    ~IsNil(c.Properties) /\ \E key \in DOMAIN Deref(c.Properties) :
                                ~Marshalable(Deref(c.Properties)[key])

(* C26: the body is serialised before any interceptor runs: a call whose
   body cannot be serialised returns the marshalling error, invokes no
   interceptor and does not invoke the transport; and a call returns the
   marshalling error only in that way *)
C26_BodySerializedEagerly ==
    /\ (call.op = "CreateContact" /\ Unserializable(contact)) => call.err = ErrMarshalMessage
    /\ (call.op = "CreateContact" /\ call.built) =>
          call.req.body = MarshalJSON(contact).out
    /\ (call.op # "idle" /\ call.err = ErrMarshalMessage) =>
          /\ call.log = <<>>
          /\ ~call.built
          /\ call.dispatches = 0
          /\ call.outcome = NoOutcome

C26_Witness ==
    /\ call.op = "CreateContact"
    /\ Unserializable(contact)
    /\ opts.requestInterceptors # <<>>
    /\ opts.requestInterceptors[1].fails
    /\ call.err = ErrMarshalMessage
    /\ call.log = <<>>
    /\ call.dispatches = 0

(* C27: no call ends in a run-time panic: whatever the status and the body
   of the response, the call returns a value or an error *)
C27_NoPanic ==
    (call.op # "idle") => call.err # ErrPanic

(* C28: FindContact does not return a nil contact with a nil error: when its
   error is nil the contact returned is non-nil and is the first entry of the
   list the body decodes to *)
C28_FindContactNeverNilNil ==
    (call.op = "FindContact" /\ call.dispatches = 1 /\ ~IsError(call.err)) =>
        /\ call.val.kind = "contact"
        /\ ~call.val.isNil
        /\ call.val.list = <<UnmarshalContactElement(call.outcome.body.arr[1]).ptr>>

(* C29: after a successful decode the extension mapping holds none of the
   names of the known attributes, also when the input carries an optional
   known key with null or with a value of the wrong type *)
C29_NoReservedKeyInProperties ==
    (phase = "decoded" /\ cerr = "") =>
        PropertyKeys(contact.Properties) \cap KnownKeys = {}

(* C30: decoding an object and encoding the record gives the object back: the
   same keys with the same values *)
C30_DecodeEncodePreserves ==
    (phase = "reencoded" /\ data0.kind = "object") =>
        /\ cerr = ""
        /\ data.kind = "object"
        /\ data.obj = data0.obj

(* C8: decoding an object fails when id, email or subscribed is absent or of
   the wrong type, and the error names the first offending field in the order
   id, email, subscribed *)
C8_RequiredFieldErrors ==
    (phase = "decoded" /\ data0.kind = "object") =>
        LET o == data0.obj
        IN  /\ ~WireString(o, "id") => cerr = ErrMissingID
            /\ (WireString(o, "id") /\ ~WireString(o, "email")) => cerr = ErrMissingEmail
            /\ (WireString(o, "id") /\ WireString(o, "email") /\ ~WireBool(o, "subscribed"))
                  => cerr = ErrMissingSubscribed

C8_Witness ==
    /\ phase = "decoded"
    /\ data0.kind = "object"
    /\ WireString(data0.obj, "id")
    /\ "email" \in DOMAIN data0.obj
    /\ data0.obj["email"].k = "bool"
    /\ "subscribed" \notin DOMAIN data0.obj
    /\ cerr = ErrMissingEmail

(* C9: decoding an object with valid required fields and well-typed known
   attributes succeeds whatever unknown keys it carries; every unknown key is
   in the extension mapping with its value, and the known attributes of the
   input are set on the record *)
C9_UnknownKeysTolerated ==
    (phase = "decoded" /\ data0.kind = "object"
        /\ RequiredValid(data0.obj) /\ OptionalsValid(data0.obj)) =>
        LET o == data0.obj
        IN  /\ cerr = ""
            /\ \A key \in DOMAIN o \ KnownKeys :
                  <<key, o[key]>> \in PropertyPairs(contact.Properties)
            /\ \A key \in DOMAIN o \cap KnownKeys :
                  KnownPresent(contact, key) /\ KnownJSON(contact, key) = o[key]

C9_Witness ==
    /\ phase = "decoded"
    /\ cerr = ""
    /\ data0.kind = "object"
    /\ DOMAIN data0.obj = RequiredKeys \cup {"firstName", "favoriteColor"}
    /\ data0.obj["favoriteColor"] = JNum(7)
    /\ contact.FirstName = String("John")
    /\ Deref(contact.Properties) = [key \in {"favoriteColor"} |-> GoFloat(7)]

(* C10: the encoded object is flat: its keys are exactly the required keys,
   the keys of the optional attributes that are present and the keys of the
   extension mapping, every extension entry sits at the top level under its own
   key, and nothing else (no key nesting the extension mapping) is emitted *)
C10_EncodedObjectFlat ==
    (phase = "encoded" /\ cerr = "") =>
        /\ data.kind = "object"
        /\ DOMAIN data.obj =
              RequiredKeys
                  \cup {key \in OptionalKeys : KnownPresent(contact0, key)}
                  \cup PropertyKeys(contact0.Properties)
        /\ \A pair \in PropertyPairs(contact0.Properties) :
              data.obj[pair[1]] = pair[2]

C10_Witness ==
    /\ phase = "encoded"
    /\ cerr = ""
    /\ contact0.Properties = Ptr([key \in {"favoriteColor"} |-> GoStr("blue")])
    /\ ~IsNil(contact0.MailingLists)
    /\ DOMAIN data.obj = RequiredKeys \cup {"mailingLists", "favoriteColor"}

====
